---- MODULE Spec2Model ----
(***************************************************************************)
(* Model of the zeep-server courier backend (Express handlers over MongoDB *)
(* collections, Firebase token gate).  Three revisions of the service are  *)
(* present in the sources: src/index.js, and the two files concatenated in *)
(* src/unnamed/part_000 (lines 1-140 and lines 142-722).  A handler that   *)
(* is textually the same in the revisions is one action; GET /parcels,     *)
(* which is registered behind the token gate in one revision and without   *)
(* it in the two others, is two actions.                                   *)
(*                                                                         *)
(* A request occupies a slot from its arrival to its response.  One action *)
(* is one resumption of an async handler: the completion of the awaited    *)
(* store / identity-provider call together with the synchronous code that  *)
(* follows it up to the next await.                                        *)
(***************************************************************************)
EXTENDS Integers, Sequences, FiniteSets, TLC

\* ---------------------------------------------------------------- bounds
\* requests in flight at once
MaxInFlight == 2
\* parcels ever created; payment records stored plus transactions open
MaxParcels == 2
MaxPayments == 2
\* tries of the transaction callback after a write conflict
MaxTxnAttempts == 1

\* ------------------------------------------------------------ JS values
Undef == [t |-> "undef"]
Num(n) == [t |-> "num", n |-> n]
Str(s) == [t |-> "str", s |-> s]
\* a 24-hex-digit string spelling the ObjectId numbered n
Hex(n) == [t |-> "hex", n |-> n]

Slots == 1..MaxInFlight
Emails == {"a@b.com"}
TxIds == {"tx1", "tx2"}
Methods == {"card"}
Amounts == {Undef, Num(0), Num(-1), Num(500)}
\* ObjectId 0 is never allocated by the store: a well-formed id of no parcel
IdStrings(next) == {Hex(n) : n \in 0..(next - 1)} \cup {Str("xyz")}
StatusInputs == {"unpaid", "paid", "undefined"}

\* ObjectId.isValid(id)
ObjectIdIsValid(id) == id.t = "hex"

\* JS truthiness: !v
Falsy(v) ==
    \/ v.t = "undef"
    \/ v.t = "num" /\ v.n = 0
    \/ v.t = "str" /\ v.s = ""

\* JS ToNumber(v), as used by the relational operator <=
ToNumber(v) ==
    CASE v.t = "num" -> [nan |-> FALSE, n |-> v.n]
      [] v.t = "str" /\ v.s = "" -> [nan |-> FALSE, n |-> 0]
      [] OTHER -> [nan |-> TRUE, n |-> 0]

\* JS v <= 0
LeqZero(v) == ~ToNumber(v).nan /\ ToNumber(v).n <= 0

\* variant: the !amount test left out
AmountInvalid_NoFalsyTest(amount) == LeqZero(amount)

\* !amount || amount <= 0
AmountInvalid(amount) == Falsy(amount) \/ LeqZero(amount)

\* ------------------------------------------------------------ the state
VARIABLES parcels, payments, users, riders, nextId, pc, inp, loc, resp, sess

vars == <<parcels, payments, users, riders, nextId, pc, inp, loc, resp, sess>>

NoInput == [route |-> "none"]
\* the locals of a handler: parcelUpdate.matchedCount (-1 before the
\* update), the writes staged in its transaction, req.decoded set, the
\* route handler entered, the tries of the transaction callback, the
\* callback the router dispatched a GET /users.. request to
NoLocals == [matched |-> -1, upd |-> FALSE, ins |-> FALSE, decoded |-> FALSE,
             ran |-> FALSE, attempts |-> 0, handler |-> "none"]
NoResp == [status |-> 0, message |-> "", inserted |-> "undefined", data |-> {}]

Reply(status, message) ==
    [status |-> status, message |-> message, inserted |-> "undefined", data |-> {}]

ReplyData(status, data) ==
    [status |-> status, message |-> "", inserted |-> "undefined", data |-> data]

NewParcel(email, status) ==
    [email |-> email, payment_status |-> status, transactionId |-> "undefined",
     paidAt |-> "undefined"]

\* the request slots before any request has arrived
InitSlots ==
    /\ pc = [r \in Slots |-> "idle"]
    /\ inp = [r \in Slots |-> NoInput]
    /\ loc = [r \in Slots |-> NoLocals]
    /\ resp = [r \in Slots |-> NoResp]
    /\ sess = [r \in Slots |-> "none"]

\* an empty database
Init ==
    /\ parcels = <<>>
    /\ nextId = 1
    /\ payments = <<>>
    /\ users = <<>>
    /\ riders = <<>>
    /\ InitSlots

\* a request can be accepted into slot r
Free(r) == pc[r] = "idle"

\* ------------------------------------------------ responding, recycling
\* the handler of slot r sends response a and returns
Respond(r, a) ==
    /\ resp' = [resp EXCEPT ![r] = a]
    /\ pc' = [pc EXCEPT ![r] = "done"]

Accept(r, body) == inp' = [inp EXCEPT ![r] = body]

\* the connection of an answered request is closed and its slot reused
Recycle(r) ==
    /\ pc[r] = "done"
    /\ pc' = [pc EXCEPT ![r] = "idle"]
    /\ inp' = [inp EXCEPT ![r] = NoInput]
    /\ loc' = [loc EXCEPT ![r] = NoLocals]
    /\ resp' = [resp EXCEPT ![r] = NoResp]
    /\ sess' = [sess EXCEPT ![r] = "none"]
    /\ UNCHANGED <<parcels, payments, users, riders, nextId>>

\* ------------------------------------------------------ POST /payments
ErrMsgs == {"", "storage fault"}

\* err.message || "Payment save failed"
CatchMessage(err) == IF err = "" THEN "Payment save failed" ELSE err

\* the parcel id an accepted POST /payments names: new ObjectId(parcelId)
Target(r) == inp[r].parcelId.n

InTxn(r) == pc[r] \in {"txn_update", "txn_insert", "txn_commit"}

\* a transaction other than r's holds an uncommitted write on parcel id
LockedByOther(r, id) ==
    \E o \in Slots \ {r} : InTxn(o) /\ loc[o].upd /\ Target(o) = id

Locked(id) == \E o \in Slots : InTxn(o) /\ loc[o].upd /\ Target(o) = id

\* variant: a second payment flips the status back
SetPaid_Toggle(p, tx) ==
    [p EXCEPT !.payment_status = IF @ = "paid" THEN "unpaid" ELSE "paid",
              !.paidAt = "set", !.transactionId = tx]

\* $set: { payment_status: "paid", paidAt: new Date(), transactionId }
SetPaid(p, tx) ==
    [p EXCEPT !.payment_status = "paid", !.paidAt = "set", !.transactionId = tx]

PaymentDoc(r) ==
    [parcelId |-> Target(r), email |-> inp[r].email, amount |-> inp[r].amount,
     paymentMethod |-> inp[r].paymentMethod,
     transactionId |-> inp[r].transactionId]

\* variant: the update issued without { session }, visible at once
UpdateOneVisible_NoSession(r) ==
    IF Target(r) \in DOMAIN parcels
    THEN [parcels EXCEPT ![Target(r)] = SetPaid(@, inp[r].transactionId)]
    ELSE parcels

\* the parcels other requests see once r's updateOne(.., { session }) has run:
\* the write is staged in the transaction, the collection is as before
UpdateOneVisible(r) == parcels

CommittedParcels(r) ==
    IF loc[r].upd
    THEN [parcels EXCEPT ![Target(r)] = SetPaid(@, inp[r].transactionId)]
    ELSE parcels

\* variant: the commit drops the staged insert
CommittedPayments_InsertLost(r) == payments

\* the payments collection once r's transaction has committed
CommittedPayments(r) ==
    IF loc[r].ins THEN Append(payments, PaymentDoc(r)) ELSE payments

\* lines 181-192: destructure the body, validate, start the session and
\* enter withTransaction
PostPayments(r) ==
    /\ Free(r)
    /\ Len(payments) + Cardinality({o \in Slots : InTxn(o)}) < MaxPayments
    /\ \E id \in IdStrings(nextId) \cup {Undef}, e \in Emails, a \in Amounts, m \in Methods, t \in TxIds :
          /\ Accept(r, [route |-> "POST /payments", parcelId |-> id, email |-> e,
                        amount |-> a, paymentMethod |-> m, transactionId |-> t])
          /\ IF ~ObjectIdIsValid(id)
             THEN /\ Respond(r, Reply(400, "Invalid parcel ID"))
                  /\ UNCHANGED sess
             ELSE IF AmountInvalid(a)
             THEN /\ Respond(r, Reply(400, "Amount must be > 0"))
                  /\ UNCHANGED sess
             ELSE /\ sess' = [sess EXCEPT ![r] = "open"]
                  /\ pc' = [pc EXCEPT ![r] = "txn_update"]
                  /\ UNCHANGED resp
    /\ UNCHANGED <<parcels, payments, users, riders, nextId, loc>>

\* the catch block answers 500, then finally awaits session.endSession()
Catch(r, err) ==
    /\ resp' = [resp EXCEPT ![r] = Reply(500, CatchMessage(err))]
    /\ pc' = [pc EXCEPT ![r] = "end_session"]

\* variant: the matchedCount test left out
TxnUpdateParcel_NoMatchCheck(r) ==
    /\ pc[r] = "txn_update"
    /\ ~LockedByOther(r, Target(r))
    /\ loc' = [loc EXCEPT ![r].matched = IF Target(r) \in DOMAIN parcels THEN 1 ELSE 0,
                          ![r].upd = Target(r) \in DOMAIN parcels]
    /\ pc' = [pc EXCEPT ![r] = "txn_insert"]
    /\ UNCHANGED <<parcels, payments, users, riders, nextId, inp, resp, sess>>

\* a. updateOne on the parcel; matchedCount === 0 throws, which aborts
TxnUpdateParcel(r) ==
    /\ pc[r] = "txn_update"
    /\ ~LockedByOther(r, Target(r))
    /\ parcels' = UpdateOneVisible(r)
    /\ IF Target(r) \in DOMAIN parcels
       THEN /\ loc' = [loc EXCEPT ![r].matched = 1, ![r].upd = TRUE]
            /\ pc' = [pc EXCEPT ![r] = "txn_insert"]
            /\ UNCHANGED resp
       ELSE /\ loc' = [loc EXCEPT ![r].matched = 0]
            /\ Catch(r, "Parcel not found or already removed")
    /\ UNCHANGED <<payments, users, riders, nextId, inp, sess>>

\* the parcel is being written by another open transaction: the store
\* answers WriteConflict, withTransaction aborts the attempt and runs the
\* callback again until its time limit, then rethrows
TxnWriteConflict(r) ==
    /\ pc[r] = "txn_update"
    /\ LockedByOther(r, Target(r))
    /\ IF loc[r].attempts < MaxTxnAttempts
       THEN /\ loc' = [loc EXCEPT ![r].attempts = @ + 1]
            /\ UNCHANGED <<pc, resp>>
       ELSE /\ Catch(r, "WriteConflict")
            /\ UNCHANGED loc
    /\ UNCHANGED <<parcels, payments, users, riders, nextId, inp, sess>>

\* the store fails the parcel update
TxnUpdateFault(r) ==
    /\ pc[r] = "txn_update"
    /\ \E err \in ErrMsgs : Catch(r, err)
    /\ UNCHANGED <<parcels, payments, users, riders, nextId, inp, loc, sess>>

\* b. insertOne of the payment record, staged in the transaction; the
\* callback returns and withTransaction goes on to commit
TxnInsertPayment(r) ==
    /\ pc[r] = "txn_insert"
    /\ loc' = [loc EXCEPT ![r].ins = TRUE]
    /\ pc' = [pc EXCEPT ![r] = "txn_commit"]
    /\ UNCHANGED <<parcels, payments, users, riders, nextId, inp, resp, sess>>

\* the store fails the payment insert: the staged parcel update is dropped
TxnInsertFault(r) ==
    /\ pc[r] = "txn_insert"
    /\ loc' = [loc EXCEPT ![r].upd = FALSE]
    /\ \E err \in ErrMsgs : Catch(r, err)
    /\ UNCHANGED <<parcels, payments, users, riders, nextId, inp, sess>>

\* commit: both staged writes become visible in one step; 201
TxnCommit(r) ==
    /\ pc[r] = "txn_commit"
    /\ parcels' = CommittedParcels(r)
    /\ payments' = CommittedPayments(r)
    /\ resp' = [resp EXCEPT ![r] =
                   Reply(201, "Payment recorded and parcel marked as paid")]
    /\ pc' = [pc EXCEPT ![r] = "end_session"]
    /\ UNCHANGED <<users, riders, nextId, inp, loc, sess>>

\* the commit is reported failed to the driver; the store has either
\* applied the whole transaction or none of it
TxnCommitFault(r) ==
    /\ pc[r] = "txn_commit"
    /\ \/ /\ parcels' = CommittedParcels(r)
          /\ payments' = CommittedPayments(r)
       \/ UNCHANGED <<parcels, payments>>
    /\ \E err \in ErrMsgs : Catch(r, err)
    /\ UNCHANGED <<users, riders, nextId, inp, loc, sess>>

\* finally { await session.endSession() }
EndSession(r) ==
    /\ pc[r] = "end_session"
    /\ sess' = [sess EXCEPT ![r] = "ended"]
    /\ pc' = [pc EXCEPT ![r] = "done"]
    /\ UNCHANGED <<parcels, payments, users, riders, nextId, inp, loc, resp>>

\* ------------------------------------------------------ parcel routes
\* app.post("/parcels"): the body is stored as sent, plus createdAt
PostParcels(r) ==
    /\ Free(r)
    /\ nextId <= MaxParcels
    /\ \E e \in Emails, st \in StatusInputs :
          /\ Accept(r, [route |-> "POST /parcels", email |-> e, payment_status |-> st])
          /\ \/ /\ parcels' = [i \in DOMAIN parcels \cup {nextId} |->
                                  IF i = nextId THEN NewParcel(e, st) ELSE parcels[i]]
                /\ nextId' = nextId + 1
                /\ Respond(r, ReplyData(201, {nextId}))
             \/ /\ Respond(r, Reply(500, "Failed to create parcel"))
                /\ UNCHANGED <<parcels, nextId>>
    /\ UNCHANGED <<payments, users, riders, loc, sess>>

\* app.get("/parcels/:id")
GetParcelById(r) ==
    /\ Free(r)
    /\ \E id \in IdStrings(nextId) :
          /\ Accept(r, [route |-> "GET /parcels/:id", id |-> id])
          /\ IF ~ObjectIdIsValid(id)
             THEN Respond(r, Reply(400, "Invalid parcel ID"))
             ELSE \/ IF id.n \in DOMAIN parcels
                    THEN Respond(r, ReplyData(200, {id.n}))
                    ELSE Respond(r, Reply(404, "Parcel not found"))
                  \/ Respond(r, Reply(500, "Failed to fetch parcel"))
    /\ UNCHANGED <<parcels, payments, users, riders, nextId, loc, sess>>

\* app.delete("/parcels/:id"); a delete of a parcel an open transaction has
\* written waits in the store until that transaction ends
DeleteParcelById(r) ==
    /\ Free(r)
    /\ \E id \in IdStrings(nextId) :
          /\ Accept(r, [route |-> "DELETE /parcels/:id", id |-> id])
          /\ IF ~ObjectIdIsValid(id)
             THEN /\ Respond(r, Reply(400, "Invalid parcel ID"))
                  /\ UNCHANGED parcels
             ELSE \/ /\ ~Locked(id.n)
                     /\ IF id.n \in DOMAIN parcels
                        THEN /\ parcels' = [i \in DOMAIN parcels \ {id.n} |-> parcels[i]]
                             /\ Respond(r, Reply(200, "Parcel deleted successfully"))
                        ELSE /\ Respond(r, Reply(404, "Parcel not found"))
                             /\ UNCHANGED parcels
                  \/ /\ Respond(r, Reply(500, "Failed to delete parcel"))
                     /\ UNCHANGED parcels
    /\ UNCHANGED <<payments, users, riders, nextId, loc, sess>>

\* ------------------------------------------------------- verifyFBToken
\* A header is undefined or a string; a string is a sequence of symbols:
\* "B" a scheme word, " " a space, "g" a token the identity provider
\* accepts, "x" a token it rejects.
HeaderInputs ==
    {Undef} \cup {Str(h) : h \in {<<>>, <<"B">>, <<"B", " ">>, <<"B", " ", "g">>,
                                  <<"B", " ", "x">>, <<"B", " ", " ", "g">>,
                                  <<"x", " ", "g">>}}

\* String.prototype.split(" "): the pieces between the spaces
RECURSIVE Split(_)
Split(s) ==
    IF \E i \in 1..Len(s) : s[i] = " "
    THEN LET i == CHOOSE j \in 1..Len(s) :
                      s[j] = " " /\ \A k \in 1..(j - 1) : s[k] # " "
         IN <<SubSeq(s, 1, i - 1)>> \o Split(SubSeq(s, i + 1, Len(s)))
    ELSE <<s>>

\* authHeader.split(" ")[1]
TokenOf(h) == IF Len(Split(h.s)) >= 2 THEN Str(Split(h.s)[2]) ELSE Undef

\* what admin.auth().verifyIdToken accepts
TokenGood(tok) == tok.t = "str" /\ tok.s = <<"g">>

QueryEmails == Emails \cup {"c@d.com", "undefined"}

\* find(query): email ? { email } : {}
FindParcels(q) == {i \in DOMAIN parcels : q = "undefined" \/ parcels[i].email = q}

FindPayments(q) == {i \in 1..Len(payments) : q = "undefined" \/ payments[i].email = q}

\* variant: the !token test left out
GateMissing_HeaderOnly(h) == Falsy(h)

\* !authHeader, or !token after the split
GateMissing(h) == Falsy(h) \/ Falsy(TokenOf(h))

\* verifyFBToken up to its await: 401 without a header or a token,
\* otherwise the token goes to the identity provider
GateEnter(r, h) ==
    IF GateMissing(h)
    THEN Respond(r, Reply(401, "Unauthorized access"))
    ELSE /\ pc' = [pc EXCEPT ![r] = "verify"]
         /\ UNCHANGED resp

\* app.get("/parcels", verifyFBToken, ..) of part_000, second file
GetParcels(r) ==
    /\ Free(r)
    /\ \E h \in HeaderInputs, q \in QueryEmails :
          /\ Accept(r, [route |-> "GET /parcels", gated |-> TRUE, header |-> h,
                        email |-> q])
          /\ GateEnter(r, h)
    /\ UNCHANGED <<parcels, payments, users, riders, nextId, loc, sess>>

\* app.get("/parcels", ..) of index.js and of part_000, first file: the
\* handler is the only callback of the route
GetParcelsUngated(r) ==
    /\ Free(r)
    /\ \E h \in HeaderInputs, q \in QueryEmails :
          Accept(r, [route |-> "GET /parcels", gated |-> FALSE, header |-> h,
                     email |-> q])
    /\ pc' = [pc EXCEPT ![r] = "handler"]
    /\ loc' = [loc EXCEPT ![r].ran = TRUE]
    /\ UNCHANGED <<parcels, payments, users, riders, nextId, resp, sess>>

\* app.get("/payments", verifyFBToken, ..)
GetPayments(r) ==
    /\ Free(r)
    /\ \E h \in HeaderInputs, q \in QueryEmails :
          /\ Accept(r, [route |-> "GET /payments", gated |-> TRUE, header |-> h,
                        email |-> q])
          /\ GateEnter(r, h)
    /\ UNCHANGED <<parcels, payments, users, riders, nextId, loc, sess>>

\* verifyIdToken resolves: req.decoded = decoded; next()
VerifyResolve(r) ==
    /\ pc[r] = "verify"
    /\ TokenGood(TokenOf(inp[r].header))
    /\ loc' = [loc EXCEPT ![r].decoded = TRUE, ![r].ran = TRUE]
    /\ pc' = [pc EXCEPT ![r] = "handler"]
    /\ UNCHANGED <<parcels, payments, users, riders, nextId, inp, resp, sess>>

\* verifyIdToken rejects (bad token, or the identity provider fails): 403
VerifyReject(r) ==
    /\ pc[r] = "verify"
    /\ Respond(r, Reply(403, "Forbidden access"))
    /\ UNCHANGED <<parcels, payments, users, riders, nextId, inp, loc, sess>>

\* the list handler: find(query).sort(..).toArray(), res.send
ListHandler(r) ==
    /\ pc[r] = "handler"
    /\ \/ IF inp[r].route = "GET /parcels"
          THEN Respond(r, ReplyData(200, FindParcels(inp[r].email)))
          ELSE Respond(r, ReplyData(200, FindPayments(inp[r].email)))
       \/ IF inp[r].route = "GET /parcels"
          THEN Respond(r, Reply(500, "Failed to get parcels"))
          ELSE Respond(r, Reply(500, "Failed to fetch payment history"))
    /\ UNCHANGED <<parcels, payments, users, riders, nextId, inp, loc, sess>>

\* ---------------------------------------------------------- POST /users
\* users ever inserted
MaxUsers == 2
UserNames == {"n1", "n2"}
\* "undefined": a body without an email; findOne({ email: undefined })
\* matches the users stored without one
UserEmails == {"a@b.com", "c@d.com", "undefined"}
\* values of new Date().toISOString()
Times == {"t1", "t2"}

\* variant: findOne never finds the user
UserExists_Never(email) == FALSE

\* usersCollection.findOne({ email }) found a document
UserExists(email) == \E i \in 1..Len(users) : users[i].email = email

\* the role and the uid a client sends in the body of POST /users
BodyRoles == {"user"}
BodyUids == {"u1", "undefined"}

\* { ...req.body, created_at: new Date().toISOString() }
UserDoc(body, t) ==
    [email |-> body.email, name |-> body.name, role |-> body.role,
     uid |-> body.uid, created_at |-> t]

\* app.post("/users") up to its second await: findOne, then either the
\* "already exists" answer or the insert is issued
PostUsers(r) ==
    /\ Free(r)
    /\ Len(users) + Cardinality({o \in Slots : pc[o] = "users_insert"}) < MaxUsers
    /\ \E e \in UserEmails, n \in UserNames, ro \in BodyRoles, u \in BodyUids :
          /\ Accept(r, [route |-> "POST /users", email |-> e, name |-> n,
                        role |-> ro, uid |-> u])
          /\ \/ IF UserExists(e)
                THEN Respond(r, [Reply(200, "User already exists")
                                   EXCEPT !.inserted = "false"])
                ELSE /\ pc' = [pc EXCEPT ![r] = "users_insert"]
                     /\ UNCHANGED resp
             \/ Respond(r, Reply(500, "Server error"))
    /\ UNCHANGED <<parcels, payments, users, riders, nextId, loc, sess>>

\* insertOne(user) completes; res.send({ inserted: true, .. })
UsersInsert(r) ==
    /\ pc[r] = "users_insert"
    /\ \/ \E t \in Times :
             /\ users' = Append(users, UserDoc(inp[r], t))
             /\ Respond(r, [ReplyData(200, {Len(users) + 1})
                               EXCEPT !.message = "User created", !.inserted = "true"])
       \/ /\ Respond(r, Reply(500, "Server error"))
          /\ UNCHANGED users
    /\ UNCHANGED <<parcels, payments, riders, nextId, inp, loc, sess>>

\* ----------------------------------------------------- PATCH /users/:id
\* ids a client may name: of a stored user, of none (0), malformed
UserIdStrings == {Hex(n) : n \in 0..Len(users)} \cup {Str("xyz")}

\* req.body of a profile update: the field it sets and the value
PatchBodies ==
    {[field |-> "email", value |-> e] : e \in {"a@b.com", "c@d.com"}}
       \cup {[field |-> "role", value |-> "admin"]}

\* { $set: updatedFields } applied to the matched document
ApplySet(u, body) ==
    IF body.field = "email" THEN [u EXCEPT !.email = body.value]
                            ELSE [u EXCEPT !.role = body.value]

\* app.patch("/users/:id"): updateOne({ _id }, { $set: req.body })
PatchUsers(r) ==
    /\ Free(r)
    /\ \E id \in UserIdStrings, b \in PatchBodies :
          /\ Accept(r, [route |-> "PATCH /users/:id", id |-> id, body |-> b])
          /\ IF ~ObjectIdIsValid(id)
             THEN /\ Respond(r, Reply(400, "Invalid user ID"))
                  /\ UNCHANGED users
             ELSE \/ IF id.n \in 1..Len(users)
                     THEN /\ users' = [users EXCEPT ![id.n] = ApplySet(@, b)]
                          /\ Respond(r, ReplyData(200, {id.n}))
                     ELSE /\ Respond(r, Reply(404, "User not found"))
                          /\ UNCHANGED users
                  \/ /\ Respond(r, Reply(500, "Internal server error"))
                     /\ UNCHANGED users
    /\ UNCHANGED <<parcels, payments, riders, nextId, loc, sess>>

\* --------------------------------------------------------- rider routes
\* rider applications ever inserted
MaxRiders == 2

\* req.body.email of a rider route: a string, or not sent
RiderEmails == {"a@b.com", "c@d.com", "undefined"}
\* a status field a client puts in the body of POST /riders
BodyStatuses == {"approved", "undefined"}

\* !email
FalsyEmail(e) == e \in {"undefined", ""}

\* ridersCollection.findOne({ email }) found a document
RiderExists(email) == \E i \in 1..Len(riders) : riders[i].email = email

\* { ...req.body, status: "pending", .. }: the literal overrides the body's
RiderStatus(body) == "pending"

\* riderDoc = { ...req.body, status: "pending", submittedAt: new Date() }
RiderDoc(body) ==
    [email |-> body.email, status |-> RiderStatus(body), submittedAt |-> "set",
     approvedAt |-> "undefined"]

\* app.post("/riders") up to its second await: the email test, findOne,
\* then either the "already applied" answer or the insert is issued
PostRiders(r) ==
    /\ Free(r)
    /\ Len(riders) + Cardinality({o \in Slots : pc[o] = "riders_insert"}) < MaxRiders
    /\ \E e \in RiderEmails, st \in BodyStatuses :
          /\ Accept(r, [route |-> "POST /riders", email |-> e, status |-> st])
          /\ IF FalsyEmail(e)
             THEN Respond(r, Reply(400, "Email is required"))
             ELSE \/ IF RiderExists(e)
                     THEN Respond(r, [Reply(200, "You have already applied")
                                        EXCEPT !.inserted = "false"])
                     ELSE /\ pc' = [pc EXCEPT ![r] = "riders_insert"]
                          /\ UNCHANGED resp
                  \/ Respond(r, Reply(500, "Failed to submit application"))
    /\ UNCHANGED <<parcels, payments, users, riders, nextId, loc, sess>>

\* insertOne(riderDoc) completes; 201 with inserted: true
RidersInsert(r) ==
    /\ pc[r] = "riders_insert"
    /\ \/ /\ riders' = Append(riders, RiderDoc(inp[r]))
          /\ Respond(r, [ReplyData(201, {Len(riders) + 1})
                            EXCEPT !.message = "Application submitted",
                                   !.inserted = "true"])
       \/ /\ Respond(r, Reply(500, "Failed to submit application"))
          /\ UNCHANGED riders
    /\ UNCHANGED <<parcels, payments, users, nextId, inp, loc, sess>>

\* req.query.status of GET /riders
RiderStatusQueries == {"pending", "undefined"}

\* find(filter): status ? { status } : {}
FindRiders(q) == {i \in 1..Len(riders) : q = "undefined" \/ riders[i].status = q}

\* app.get("/riders"): the handler has no try/catch; when find(..).toArray()
\* rejects, the promise of the handler rejects.  What then happens is the
\* router's doing and differs between the versions of Express the service
\* can be installed with: version 4 drops the promise, so nothing is ever
\* sent; version 5 passes the error to its default error handler, which
\* answers 500.
GetRiders(r) ==
    /\ Free(r)
    /\ \E q \in RiderStatusQueries :
          /\ Accept(r, [route |-> "GET /riders", status |-> q])
          /\ \/ Respond(r, ReplyData(200, FindRiders(q)))
             \/ /\ pc' = [pc EXCEPT ![r] = "unanswered"]
                /\ UNCHANGED resp
             \/ Respond(r, Reply(500, "Internal Server Error"))
    /\ UNCHANGED <<parcels, payments, users, riders, nextId, loc, sess>>

\* ids a client may name: of a stored application, of none (0), malformed
RiderIdStrings == {Hex(n) : n \in 0..Len(riders)} \cup {Str("xyz")}

\* variant: the approval timestamp left out of the $set
SetApproved_StatusOnly(a) == [a EXCEPT !.status = "approved"]

\* $set: { status: "approved", approvedAt: new Date() }
SetApproved(a) == [a EXCEPT !.status = "approved", !.approvedAt = "set"]

\* the document updateOne({ email }, ..) picks: the first in natural order
FirstUser(email) ==
    CHOOSE i \in 1..Len(users) :
       users[i].email = email /\ \A k \in 1..(i - 1) : users[k].email # email

\* usersCollection.updateOne({ email }, { $set: { role: "rider" } })
SetRiderRole(email) ==
    IF UserExists(email)
    THEN [users EXCEPT ![FirstUser(email)].role = "rider"]
    ELSE users

\* app.patch("/riders/approve/:id") up to its second await: new ObjectId(id)
\* throws on a malformed id (caught: 500); the application is updated; with
\* an email in the body the user update is issued, otherwise the result of
\* the first update is sent
ApproveRider(r) ==
    /\ Free(r)
    /\ \E id \in RiderIdStrings, e \in RiderEmails :
          /\ Accept(r, [route |-> "PATCH /riders/approve/:id", id |-> id, email |-> e])
          /\ IF ~ObjectIdIsValid(id)
             THEN /\ Respond(r, Reply(500, "Server error during approval"))
                  /\ UNCHANGED <<riders, loc>>
             ELSE \/ /\ IF id.n \in 1..Len(riders)
                        THEN /\ riders' = [riders EXCEPT ![id.n] = SetApproved(@)]
                             /\ loc' = [loc EXCEPT ![r].matched = 1]
                        ELSE /\ UNCHANGED riders
                             /\ loc' = [loc EXCEPT ![r].matched = 0]
                     /\ IF ~FalsyEmail(e)
                        THEN /\ pc' = [pc EXCEPT ![r] = "role_update"]
                             /\ UNCHANGED resp
                        ELSE Respond(r, ReplyData(200, IF id.n \in 1..Len(riders)
                                                      THEN {id.n} ELSE {}))
                  \/ /\ Respond(r, Reply(500, "Server error during approval"))
                     /\ UNCHANGED <<riders, loc>>
    /\ UNCHANGED <<parcels, payments, users, nextId, sess>>

\* the user update completes; res.send(riderResult)
ApproveSetRole(r) ==
    /\ pc[r] = "role_update"
    /\ \/ /\ users' = SetRiderRole(inp[r].email)
          /\ Respond(r, ReplyData(200, IF loc[r].matched = 1 THEN {inp[r].id.n} ELSE {}))
       \/ /\ Respond(r, Reply(500, "Server error during approval"))
          /\ UNCHANGED users
    /\ UNCHANGED <<parcels, payments, riders, nextId, inp, loc, sess>>

\* ------------------------------------------------ PATCH /users/:id/role
\* req.body.role
RoleInputs == {"admin", "boss", "undefined"}

\* variant: every role accepted
RoleValid_Any(role) == TRUE

\* ["admin", "user", "rider"].includes(role)
RoleValid(role) == role \in {"admin", "user", "rider"}

\* app.patch("/users/:id/role")
PatchUserRole(r) ==
    /\ Free(r)
    /\ \E id \in UserIdStrings, ro \in RoleInputs :
          /\ Accept(r, [route |-> "PATCH /users/:id/role", id |-> id, role |-> ro])
          /\ IF ~ObjectIdIsValid(id)
             THEN /\ Respond(r, Reply(400, "Invalid user ID format"))
                  /\ UNCHANGED users
             ELSE IF ~RoleValid(ro)
             THEN /\ Respond(r, Reply(400, "Invalid role specified"))
                  /\ UNCHANGED users
             ELSE \/ IF id.n \in 1..Len(users)
                     THEN /\ users' = [users EXCEPT ![id.n].role = ro]
                          /\ Respond(r, [ReplyData(200, {id.n}) EXCEPT
                                            !.message = "User role updated successfully"])
                     ELSE /\ Respond(r, Reply(404, "User not found"))
                          /\ UNCHANGED users
                  \/ /\ Respond(r, Reply(500, "Failed to update user role"))
                     /\ UNCHANGED users
    /\ UNCHANGED <<parcels, payments, riders, nextId, loc, sess>>

\* -------------------------------------------- the router, GET /users..
\* a path is the sequence of its segments; a segment of a route's pattern
\* is a literal or a named parameter
Lit(s) == [kind |-> "lit", name |-> s]
Param(s) == [kind |-> "param", name |-> s]

\* the GET routes in the order they are registered: "/" when the file is
\* loaded, the others in run() once the store is connected
GetRoutes ==
    << [pattern |-> <<>>, handler |-> "root"],
       [pattern |-> <<Lit("parcels")>>, handler |-> "getParcels"],
       [pattern |-> <<Lit("parcels"), Param("id")>>, handler |-> "getParcelById"],
       [pattern |-> <<Lit("payments")>>, handler |-> "getPayments"],
       [pattern |-> <<Lit("riders")>>, handler |-> "getRiders"],
       [pattern |-> <<Lit("users"), Param("id")>>, handler |-> "getUserById"],
       [pattern |-> <<Lit("users"), Lit("search")>>, handler |-> "searchUsers"] >>

\* the pattern matches the whole path, a parameter any one segment
PathMatches(pattern, path) ==
    /\ Len(pattern) = Len(path)
    /\ \A i \in 1..Len(pattern) :
          pattern[i].kind = "param" \/ pattern[i].name = path[i]

\* the router runs the first registered route that matches; none of the
\* handlers calls next(), so no later route sees the request (0: no route)
Dispatch(path) ==
    IF \E i \in 1..Len(GetRoutes) : PathMatches(GetRoutes[i].pattern, path)
    THEN CHOOSE i \in 1..Len(GetRoutes) :
            /\ PathMatches(GetRoutes[i].pattern, path)
            /\ \A k \in 1..(i - 1) : ~PathMatches(GetRoutes[k].pattern, path)
    ELSE 0

\* req.params[name] under the route's pattern
ParamOf(pattern, path, name) ==
    IF \E i \in 1..Len(pattern) : pattern[i] = Param(name)
    THEN path[CHOOSE i \in 1..Len(pattern) : pattern[i] = Param(name)]
    ELSE "undefined"

\* the characters of the strings stored in email and uid fields
Text(s) ==
    CASE s = "a@b.com" -> <<"a", "@", "b", ".", "c", "o", "m">>
      [] s = "c@d.com" -> <<"c", "@", "d", ".", "c", "o", "m">>
      [] s = "u1" -> <<"u", "1">>
      [] OTHER -> <<>>

LowerChar(c) ==
    CASE c = "A" -> "a" [] c = "B" -> "b" [] c = "U" -> "u" [] OTHER -> c

Lower(t) == [i \in 1..Len(t) |-> LowerChar(t[i])]

Contains(hay, needle) ==
    \E i \in 1..(Len(hay) - Len(needle) + 1) :
       SubSeq(hay, i, i + Len(needle) - 1) = needle

\* { field: { $regex: term, $options: "i" } } for a term of letters and
\* digits; a document without the field does not match
RegexMatches(term, field) ==
    field # "undefined" /\ Contains(Lower(Text(field)), Lower(term))

\* .limit(10)
SearchLimit == 10

\* the first n of a set of positions, in natural order
FirstN(S, n) == {i \in S : Cardinality({k \in S : k < i}) < n}

\* find({ $or: [email .., uid ..] }).limit(10)
SearchHits(term) ==
    FirstN({i \in 1..Len(users) :
               RegexMatches(term, users[i].email) \/ RegexMatches(term, users[i].uid)},
           SearchLimit)

\* .project({ _id, email, uid, name, role, createdAt, last_log_in }): of the
\* stored fields created_at is not among them
Project(i) ==
    [id |-> i, email |-> users[i].email, uid |-> users[i].uid,
     name |-> users[i].name, role |-> users[i].role]

\* the whole stored document
FullDoc(i) ==
    [id |-> i, email |-> users[i].email, uid |-> users[i].uid,
     name |-> users[i].name, role |-> users[i].role,
     created_at |-> users[i].created_at]

\* findOne({ uid }): an undefined uid is sent as null, which matches the
\* documents without the field; the first match in natural order
FindByUid(uid) ==
    LET S == {i \in 1..Len(users) : users[i].uid = uid}
    IN {i \in S : \A k \in S : i <= k}

\* paths of GET requests under /users
UserPaths == {<<"users", "search">>, <<"users", "u1">>, <<"users">>}
\* req.query.term and req.query.email: a sequence of characters or absent
TermInputs == {Undef, Str(<<"A", "@">>), Str(<<"U">>), Str(<<"z">>)}
EmailTermInputs == {Undef, Str(<<"c">>)}

\* req.query.term || req.query.email
SearchTerm(term, email) ==
    IF term.t = "undef" \/ term.s = <<>> THEN email ELSE term

\* app.get("/users/:id"): uid = req.params.uid, findOne({ uid })
GetUserByIdHandler(r, path) ==
    LET uid == ParamOf(GetRoutes[Dispatch(path)].pattern, path, "uid")
    IN \/ IF FindByUid(uid) = {}
          THEN Respond(r, Reply(404, "User not found"))
          ELSE Respond(r, ReplyData(200, {FullDoc(i) : i \in FindByUid(uid)}))
       \/ Respond(r, Reply(500, "Internal server error"))

\* app.get("/users/search")
SearchUsersHandler(r, term, email) ==
    IF SearchTerm(term, email).t = "undef"
    THEN Respond(r, Reply(400, "Search term is required"))
    ELSE \/ Respond(r, [ReplyData(200, {Project(i) :
                                          i \in SearchHits(SearchTerm(term, email).s)})
                          EXCEPT !.message = "success"])
         \/ Respond(r, Reply(500, "Internal server error"))

\* a GET request on a path under /users: the router picks the callback
GetUsers(r) ==
    /\ Free(r)
    /\ \E path \in UserPaths, term \in TermInputs, email \in EmailTermInputs :
          /\ Accept(r, [route |-> "GET", path |-> path, term |-> term,
                        email |-> email])
          /\ IF Dispatch(path) = 0
             THEN /\ Respond(r, Reply(404, "Cannot GET"))
                  /\ UNCHANGED loc
             ELSE /\ loc' = [loc EXCEPT ![r].handler = GetRoutes[Dispatch(path)].handler]
                  /\ IF GetRoutes[Dispatch(path)].handler = "searchUsers"
                     THEN SearchUsersHandler(r, term, email)
                     ELSE GetUserByIdHandler(r, path)
    /\ UNCHANGED <<parcels, payments, users, riders, nextId, sess>>

\* ---------------------------------------------------- specifications
\* the payment ledger and the parcel writes
NextLedger ==
    \E r \in Slots :
       \/ PostPayments(r)
       \/ TxnUpdateParcel(r)
       \/ TxnWriteConflict(r)
       \/ TxnUpdateFault(r)
       \/ TxnInsertPayment(r)
       \/ TxnInsertFault(r)
       \/ TxnCommit(r)
       \/ TxnCommitFault(r)
       \/ EndSession(r)
       \/ PostParcels(r)
       \/ DeleteParcelById(r)
       \/ Recycle(r)

\* recordPayment calls and reads only
NextPay ==
    \E r \in Slots :
       \/ PostPayments(r)
       \/ TxnUpdateParcel(r)
       \/ TxnWriteConflict(r)
       \/ TxnUpdateFault(r)
       \/ TxnInsertPayment(r)
       \/ TxnInsertFault(r)
       \/ TxnCommit(r)
       \/ TxnCommitFault(r)
       \/ EndSession(r)
       \/ GetParcelById(r)
       \/ Recycle(r)

\* the read routes and the token gate
NextReads ==
    \E r \in Slots :
       \/ GetParcels(r)
       \/ GetParcelsUngated(r)
       \/ GetPayments(r)
       \/ VerifyResolve(r)
       \/ VerifyReject(r)
       \/ ListHandler(r)
       \/ GetParcelById(r)
       \/ Recycle(r)

NextUsers ==
    \E r \in Slots :
       \/ PostUsers(r)
       \/ UsersInsert(r)
       \/ Recycle(r)

\* user creation together with profile updates
NextProfiles ==
    \E r \in Slots :
       \/ PostUsers(r)
       \/ UsersInsert(r)
       \/ PatchUsers(r)
       \/ Recycle(r)

SpecLedger == Init /\ [][NextLedger]_vars

\* parcels that are all unpaid, no payment records
InitPay ==
    /\ \E k \in 1..MaxParcels :
          /\ parcels = [i \in 1..k |-> NewParcel("a@b.com", "unpaid")]
          /\ nextId = k + 1
    /\ payments = <<>>
    /\ users = <<>>
    /\ riders = <<>>
    /\ InitSlots

SpecPay == InitPay /\ [][NextPay]_vars

\* a database some parcels were created in, the first of them paid for
InitReads ==
    /\ \E k \in 0..MaxParcels, paid \in BOOLEAN :
          /\ paid => k >= 1
          /\ parcels = [i \in 1..k |->
                          IF paid /\ i = 1
                          THEN SetPaid(NewParcel("a@b.com", "unpaid"), "tx1")
                          ELSE NewParcel("a@b.com", "unpaid")]
          /\ nextId = k + 1
          /\ payments = IF paid
                        THEN <<[parcelId |-> 1, email |-> "a@b.com",
                                amount |-> Num(500), paymentMethod |-> "card",
                                transactionId |-> "tx1"]>>
                        ELSE <<>>
    /\ users = <<>>
    /\ riders = <<>>
    /\ InitSlots

SpecReads == InitReads /\ [][NextReads]_vars

SpecUsers == Init /\ [][NextUsers]_vars

SpecProfiles == Init /\ [][NextProfiles]_vars

\* the rider workflow and the role updates
NextRiders ==
    \E r \in Slots :
       \/ PostRiders(r)
       \/ RidersInsert(r)
       \/ GetRiders(r)
       \/ ApproveRider(r)
       \/ ApproveSetRole(r)
       \/ PatchUserRole(r)
       \/ Recycle(r)

StoredUser(email) ==
    [email |-> email, name |-> "n1", role |-> "user", uid |-> "undefined",
     created_at |-> "t1"]

\* users created before by POST /users, two of them by a pair of concurrent
\* calls with one email; no rider application yet
InitRiders ==
    /\ users \in {<<>>, <<StoredUser("a@b.com")>>,
                   <<StoredUser("a@b.com"), StoredUser("c@d.com")>>,
                   <<StoredUser("a@b.com"), StoredUser("a@b.com")>>}
    /\ riders = <<>>
    /\ parcels = <<>>
    /\ nextId = 1
    /\ payments = <<>>
    /\ InitSlots

SpecRiders == InitRiders /\ [][NextRiders]_vars

\* the same, with every store call that was issued completing (with its
\* result or with an error): the step after an await is eventually taken
SpecRidersFair ==
    /\ InitRiders
    /\ [][NextRiders]_vars
    /\ \A r \in Slots : WF_vars(RidersInsert(r)) /\ WF_vars(ApproveSetRole(r))

\* lookups in the user directory
NextDirectory ==
    \E r \in Slots :
       \/ GetUsers(r)
       \/ Recycle(r)

\* users created before by POST /users, with and without a uid
InitDirectory ==
    /\ users \in {<<>>,
                   <<[StoredUser("a@b.com") EXCEPT !.uid = "u1"]>>,
                   <<StoredUser("a@b.com")>>,
                   <<[StoredUser("a@b.com") EXCEPT !.uid = "u1"],
                     StoredUser("c@d.com")>>}
    /\ riders = <<>>
    /\ parcels = <<>>
    /\ nextId = 1
    /\ payments = <<>>
    /\ InitSlots

SpecDirectory == InitDirectory /\ [][NextDirectory]_vars

\* every route of the service
Next ==
    NextLedger \/ NextReads \/ NextUsers \/ NextProfiles \/ NextRiders \/ NextDirectory

Spec == Init /\ [][Next]_vars

\* ------------------------------------------------------------- claims
IsPayment(r) == inp[r].route = "POST /payments"

\* slot r takes the step
Moves(r) == pc'[r] # pc[r] \/ loc'[r] # loc[r]

SuppliedDoc(r) ==
    [parcelId |-> inp[r].parcelId.n, email |-> inp[r].email,
     amount |-> inp[r].amount, paymentMethod |-> inp[r].paymentMethod,
     transactionId |-> inp[r].transactionId]

\* C1: a recordPayment step that answers 201 leaves the target parcel paid,
\* every other parcel as it was, and the payments collection extended by
\* exactly one record carrying the supplied parcel id, email, amount,
\* method and transaction id; a step of the call at the parcel update or at
\* the payment insert (a failure of either included), and the ending of
\* its session, change neither collection.
C1_AtomicPayment ==
    [][\A r \in Slots :
          (IsPayment(r) /\ Moves(r) /\ (InTxn(r) \/ pc[r] = "end_session")) =>
             IF pc[r] = "txn_commit" /\ resp'[r].status = 201
             THEN /\ DOMAIN parcels' = DOMAIN parcels
                  /\ inp[r].parcelId.n \in DOMAIN parcels'
                  /\ parcels'[inp[r].parcelId.n].payment_status = "paid"
                  /\ \A i \in DOMAIN parcels \ {inp[r].parcelId.n} :
                        parcels'[i] = parcels[i]
                  /\ payments' = Append(payments, SuppliedDoc(r))
             ELSE pc[r] \in {"txn_update", "txn_insert", "end_session"} =>
                     (parcels' = parcels /\ payments' = payments)]_vars

\* C1 witness: one call answered 201 with its parcel paid and its record
\* stored, another answered 500 after its parcel update had matched and its
\* payment insert failed
C1_Witness ==
    \E r, o \in Slots :
       /\ IsPayment(r) /\ resp[r].status = 201
       /\ inp[r].parcelId.n \in DOMAIN parcels
       /\ parcels[inp[r].parcelId.n].payment_status = "paid"
       /\ \E i \in 1..Len(payments) : payments[i] = SuppliedDoc(r)
       /\ IsPayment(o) /\ resp[o].status = 500
       /\ loc[o].matched = 1 /\ ~loc[o].ins

\* C2: from unpaid parcels and no payments, under recordPayment calls and
\* reads only, in every state a parcel is paid exactly when a payment record
\* referencing it is stored.
C2_PaidIffPayment ==
    \A id \in DOMAIN parcels :
       (parcels[id].payment_status = "paid")
          <=> (\E i \in 1..Len(payments) : payments[i].parcelId = id)

\* C2 witness: a paid parcel with its payment record, while a call on
\* another parcel has been rolled back after its parcel update and that
\* parcel is unpaid with no record
C2_Witness ==
    \E id \in DOMAIN parcels, r \in Slots :
       /\ parcels[id].payment_status = "paid"
       /\ \E i \in 1..Len(payments) : payments[i].parcelId = id
       /\ IsPayment(r) /\ resp[r].status = 500 /\ loc[r].matched = 1
       /\ inp[r].parcelId.n \in DOMAIN parcels
       /\ parcels[inp[r].parcelId.n].payment_status = "unpaid"

\* C3 (as claimed): no two payment records reference the same parcel id.
C3_OnePaymentPerParcel ==
    \A i, j \in 1..Len(payments) :
       i # j => payments[i].parcelId # payments[j].parcelId

\* the claim's reading of a rejected body: a parcelId that is no 24-digit
\* hex string, or an amount that is missing or a number <= 0
BadPaymentBody(b) ==
    \/ b.parcelId.t # "hex"
    \/ b.amount.t = "undef"
    \/ b.amount.t = "num" /\ b.amount.n <= 0

\* C4: a recordPayment call with a malformed parcelId or a missing or
\* non-positive amount is answered 400 when it arrives, never has a session
\* and never enters the transaction, and its arrival changes neither the
\* parcels nor the payments.
C4_ValidationNoWrite ==
    /\ [](\A r \in Slots :
            (IsPayment(r) /\ BadPaymentBody(inp[r])) =>
               /\ resp[r].status = 400
               /\ pc[r] = "done"
               /\ sess[r] = "none"
               /\ loc[r] = NoLocals)
    /\ [][\A r \in Slots :
            (pc[r] = "idle" /\ pc'[r] # "idle" /\ inp'[r].route = "POST /payments"
               /\ BadPaymentBody(inp'[r])) =>
               (parcels' = parcels /\ payments' = payments)]_vars

\* C4 witness: a rejected call with a missing amount on an existing parcel,
\* and one with a malformed id, both answered 400
C4_Witness ==
    \E r, o \in Slots :
       /\ IsPayment(r) /\ inp[r].parcelId.t = "hex"
       /\ inp[r].parcelId.n \in DOMAIN parcels
       /\ inp[r].amount.t = "undef" /\ resp[r].status = 400
       /\ IsPayment(o) /\ inp[o].parcelId.t = "str" /\ resp[o].status = 400

\* C5: when the parcel update of a recordPayment call runs and its
\* well-formed parcelId matches no parcel, the call goes to its session end
\* answered 500 with the causing message, without the insert staged, and
\* the step changes neither collection; no call is answered 201 by a step
\* taken while its parcelId matches no parcel.
C5_NoParcelNoPayment ==
    [][\A r \in Slots :
          /\ (IsPayment(r) /\ pc[r] = "txn_update" /\ pc'[r] # "txn_update"
                /\ inp[r].parcelId.n \notin DOMAIN parcels) =>
                /\ pc'[r] = "end_session"
                /\ resp'[r].status = 500
                /\ resp'[r].message \in {"Parcel not found or already removed",
                                         "Payment save failed", "storage fault"}
                /\ ~loc'[r].ins /\ ~loc'[r].upd
                /\ parcels' = parcels /\ payments' = payments
          /\ (IsPayment(r) /\ resp'[r].status = 201 /\ resp[r].status # 201) =>
                inp[r].parcelId.n \in DOMAIN parcels]_vars

\* C5 witness: a call on a deleted parcel answered 500 "Parcel not found or
\* already removed", with no payment record referencing that id
C5_Witness ==
    \E r \in Slots :
       /\ IsPayment(r) /\ loc[r].matched = 0
       /\ inp[r].parcelId.n >= 1 /\ inp[r].parcelId.n \notin DOMAIN parcels
       /\ resp[r].status = 500
       /\ resp[r].message = "Parcel not found or already removed"
       /\ \A i \in 1..Len(payments) : payments[i].parcelId # inp[r].parcelId.n

C7_PaymentRefersToParcel ==
    \A i \in 1..Len(payments) : payments[i].parcelId \in DOMAIN parcels

\* the claim's reading of a header: none sent
HeaderAbsent(h) == h.t = "undef" \/ (h.t = "str" /\ h.s = <<>>)

FirstSpace(s) == CHOOSE i \in 1..Len(s) : s[i] = " " /\ \A k \in 1..(i - 1) : s[k] # " "

\* a scheme with nothing but spaces after it
NoTokenAfterScheme(h) ==
    /\ h.t = "str"
    /\ h.s # <<>>
    /\ \/ \A i \in 1..Len(h.s) : h.s[i] # " "
       \/ \A i \in (FirstSpace(h.s) + 1)..Len(h.s) : h.s[i] = " "

\* a scheme, one space, and a token the identity provider accepts
PresentsGoodToken(h) ==
    /\ h.t = "str"
    /\ \E i \in 1..Len(h.s) : h.s[i] = " "
    /\ SubSeq(h.s, FirstSpace(h.s) + 1, Len(h.s)) = <<"g">>

IsGated(r) == inp[r].route \in {"GET /parcels", "GET /payments"} /\ inp[r].gated

\* C8: on a route registered behind verifyFBToken the handler is entered
\* only with a verified token and the decoded claims attached; a request
\* with no header, or no token after the scheme, is answered 401 when it
\* arrives; a verification that ends otherwise than by success answers 403;
\* a request answered 401 or 403 never entered the handler and carries no
\* data, and 200 and 500 come from the handler only.
C8_GateBeforeHandler ==
    /\ [](\A r \in Slots : IsGated(r) =>
            /\ (loc[r].ran \/ pc[r] = "handler") =>
                  (loc[r].decoded /\ PresentsGoodToken(inp[r].header))
            /\ (HeaderAbsent(inp[r].header) \/ NoTokenAfterScheme(inp[r].header)) =>
                  (resp[r].status = 401 /\ pc[r] = "done")
            /\ resp[r].status \in {401, 403} =>
                  (~loc[r].ran /\ ~loc[r].decoded /\ resp[r].data = {})
            /\ resp[r].status \in {200, 500} => loc[r].ran)
    /\ [][\A r \in Slots :
            (IsGated(r) /\ pc[r] = "verify" /\ pc'[r] # "verify") =>
               \/ /\ PresentsGoodToken(inp[r].header)
                  /\ loc'[r].decoded /\ pc'[r] = "handler"
               \/ /\ resp'[r].status = 403 /\ pc'[r] = "done"
                  /\ ~loc'[r].ran]_vars

\* C8 witness: one gated request has passed verification and is in its
\* handler, another was answered 403
C8_Witness ==
    \E r, o \in Slots :
       /\ IsGated(r) /\ pc[r] = "handler" /\ loc[r].decoded
       /\ IsGated(o) /\ resp[o].status = 403

\* C9 (as claimed): no GET /parcels or GET /payments request is answered
\* 200 without a token the identity provider accepts.
C9_ReadsGated ==
    \A r \in Slots :
       (inp[r].route \in {"GET /parcels", "GET /payments"} /\ resp[r].status = 200)
          => PresentsGoodToken(inp[r].header)

\* C10: a POST /users call that arrives when a user with its email is
\* stored is answered "already exists" with inserted = false (or 500 on a
\* store fault), issues no insert and leaves the users as they were; the
\* answer inserted = true is given only by the step that appends exactly
\* one user with the request's email and a creation timestamp.
C10_UpsertIdempotent ==
    [][\A r \in Slots :
          /\ (pc[r] = "idle" /\ pc'[r] # "idle" /\ inp'[r].route = "POST /users"
                /\ \E i \in 1..Len(users) : users[i].email = inp'[r].email) =>
                /\ users' = users
                /\ pc'[r] = "done"
                /\ \/ resp'[r].status = 200 /\ resp'[r].inserted = "false"
                   \/ resp'[r].status = 500
          /\ (resp'[r].inserted = "true" /\ resp[r].inserted # "true") =>
                /\ inp[r].route = "POST /users"
                /\ Len(users') = Len(users) + 1
                /\ SubSeq(users', 1, Len(users)) = users
                /\ users'[Len(users')].email = inp[r].email
                /\ users'[Len(users')].created_at \in Times]_vars

\* C10 witness: two calls with the same email, the first answered
\* inserted = true and the second inserted = false, and one user with that
\* email stored
C10_Witness ==
    \E r, o \in Slots :
       /\ inp[r].route = "POST /users" /\ resp[r].inserted = "true"
       /\ inp[o].route = "POST /users" /\ resp[o].inserted = "false"
       /\ inp[o].email = inp[r].email /\ inp[o].name # inp[r].name
       /\ Cardinality({i \in 1..Len(users) : users[i].email = inp[r].email}) = 1
       /\ \A i \in 1..Len(users) :
             users[i].email = inp[r].email => users[i].name = inp[r].name

\* C11 (as claimed): in every state no two stored users have the same
\* email (users stored without an email set aside).
C11_OneUserPerEmail ==
    \A i, j \in 1..Len(users) :
       (i # j /\ users[i].email # "undefined") => users[i].email # users[j].email

IsApprove(r) == inp[r].route = "PATCH /riders/approve/:id"

\* C12: the step of an approve call that updates a stored application (no
\* store fault) sets that application's status to approved and its approval
\* timestamp, keeps its email and every other application, and changes no
\* user; without an email in the body that step answers 200 and ends the
\* call, so the call changes no role; with an email the call goes on to the
\* user update, whose step, when answered 200, leaves a user with that
\* email (if one is stored) with the role rider and changes nothing else
\* than that one role.
C12_ApproveSetsStatusAndRole ==
    [][\A r \in Slots :
          /\ (pc[r] = "idle" /\ pc'[r] # "idle"
                /\ inp'[r].route = "PATCH /riders/approve/:id") =>
                /\ users' = users
                /\ (inp'[r].id.t = "hex" /\ inp'[r].id.n \in 1..Len(riders)
                      /\ resp'[r].status # 500) =>
                      /\ Len(riders') = Len(riders)
                      /\ riders'[inp'[r].id.n].status = "approved"
                      /\ riders'[inp'[r].id.n].approvedAt = "set"
                      /\ riders'[inp'[r].id.n].email = riders[inp'[r].id.n].email
                      /\ \A k \in 1..Len(riders) \ {inp'[r].id.n} :
                            riders'[k] = riders[k]
                      /\ IF inp'[r].email = "undefined"
                         THEN resp'[r].status = 200 /\ pc'[r] = "done"
                         ELSE pc'[r] = "role_update"
          /\ (IsApprove(r) /\ pc[r] = "role_update" /\ pc'[r] # "role_update"
                /\ resp'[r].status = 200) =>
                /\ riders' = riders
                /\ Len(users') = Len(users)
                /\ (\E i \in 1..Len(users) : users[i].email = inp[r].email) =>
                      \E i \in 1..Len(users) : /\ users'[i].email = inp[r].email
                                                /\ users'[i].role = "rider"
                /\ \A i \in 1..Len(users) :
                      users'[i] # users[i] =>
                         /\ users[i].email = inp[r].email
                         /\ users'[i] = [users[i] EXCEPT !.role = "rider"]
                /\ Cardinality({i \in 1..Len(users) : users'[i] # users[i]}) <= 1]_vars

\* C12 witness: an approve call with an email answered 200, its application
\* approved with a timestamp and the user with that email a rider; and an
\* approve call without an email answered 200 on a stored application
C12_Witness ==
    \E r, o \in Slots :
       /\ IsApprove(r) /\ resp[r].status = 200 /\ inp[r].email = "a@b.com"
       /\ loc[r].matched = 1
       /\ riders[inp[r].id.n].status = "approved"
       /\ riders[inp[r].id.n].approvedAt = "set"
       /\ \E i \in 1..Len(users) : users[i].email = "a@b.com" /\ users[i].role = "rider"
       /\ IsApprove(o) /\ resp[o].status = 200 /\ inp[o].email = "undefined"
       /\ loc[o].matched = 1

\* C13 (as claimed, the consequence): in every state no two rider
\* applications have the same email.
C13_OneApplicationPerEmail ==
    \A i, j \in 1..Len(riders) : i # j => riders[i].email # riders[j].email

\* C14: a PATCH /users/:id/role call with a malformed id or a role other
\* than admin, user, rider is answered 400 and changes no user; with a
\* well-formed id of no user it is answered 404 (500 on a store fault) and
\* changes no user; otherwise it is answered 200 and the users are as
\* before except for the role of the named user, which is the given role
\* (or it is answered 500 on a store fault, the users unchanged).
C14_UpdateRole ==
    [][\A r \in Slots :
          (pc[r] = "idle" /\ pc'[r] # "idle"
             /\ inp'[r].route = "PATCH /users/:id/role") =>
             /\ pc'[r] = "done"
             /\ IF inp'[r].id.t # "hex" \/ inp'[r].role \notin {"admin", "user", "rider"}
                THEN resp'[r].status = 400 /\ users' = users
                ELSE IF inp'[r].id.n \notin 1..Len(users)
                THEN resp'[r].status \in {404, 500} /\ users' = users
                ELSE \/ /\ resp'[r].status = 200
                        /\ users' = [users EXCEPT ![inp'[r].id.n].role = inp'[r].role]
                     \/ /\ resp'[r].status = 500
                        /\ users' = users]_vars

\* C14 witness: a call answered 200 with the named user now admin, and a
\* call naming a stored user with a role outside the list answered 400
C14_Witness ==
    \E r, o \in Slots :
       /\ inp[r].route = "PATCH /users/:id/role" /\ resp[r].status = 200
       /\ inp[r].role = "admin" /\ users[inp[r].id.n].role = "admin"
       /\ inp[o].route = "PATCH /users/:id/role" /\ resp[o].status = 400
       /\ inp[o].role = "boss" /\ inp[o].id.t = "hex"
       /\ inp[o].id.n \in 1..Len(users)

\* C16 (as claimed): the user update of an approve call changes a role only
\* when the call's id matched an application, which the call set to
\* approved, and the email of the call is that application's email.
C16_RoleOnlyOnApproval ==
    [][\A r \in Slots :
          (IsApprove(r) /\ pc[r] = "role_update" /\ users' # users) =>
             /\ loc[r].matched = 1
             /\ riders[inp[r].id.n].status = "approved"
             /\ riders[inp[r].id.n].email = inp[r].email]_vars

IsSearch(r) == inp[r].route = "GET" /\ inp[r].path = <<"users", "search">>

\* C15 (as claimed): a GET /users/search request is answered by the search
\* handler and by no other; with a term, 200 (500 on a store fault) with at
\* most 10 users, each matching the term on email or uid and carrying the
\* projected fields only; without a term, 400.
C15_SearchDispatched ==
    \A r \in Slots :
       (IsSearch(r) /\ pc[r] = "done") =>
          /\ loc[r].handler = "searchUsers"
          /\ IF SearchTerm(inp[r].term, inp[r].email).t = "undef"
             THEN resp[r].status = 400
             ELSE /\ resp[r].status \in {200, 500}
                  /\ Cardinality(resp[r].data) <= 10
                  /\ \A d \in resp[r].data :
                        /\ DOMAIN d = {"id", "email", "uid", "name", "role"}
                        /\ \/ RegexMatches(SearchTerm(inp[r].term, inp[r].email).s, d.email)
                           \/ RegexMatches(SearchTerm(inp[r].term, inp[r].email).s, d.uid)

\* C17 (as claimed): every request a handler has accepted is eventually
\* answered, store faults included.
C17_EveryRequestAnswered ==
    \A r \in Slots : (pc[r] # "idle") ~> (pc[r] = "done")

====
